---------------------------- MODULE Spec2Model ----------------------------
(***************************************************************************)
(* Model of stylelint-plugin-stylus:                                       *)
(*   - lib/utils/option.js (optionsMatches and the string/RegExp matcher), *)
(*   - lib/utils/stylelint-v15/rules/block-closing-brace-empty-line-before *)
(* JavaScript strings are sequences of one-character strings; JavaScript   *)
(* values are tagged records.                                              *)
(***************************************************************************)
EXTENDS Integers, Sequences, FiniteSets, TLC

VARIABLES
    mInput,          \* matcher: the input / value argument
    mComparison,     \* matcher: the comparison argument
    mOptions,        \* optionsMatches: the options argument
    mPropertyName,   \* optionsMatches: the propertyName argument
    mResult,         \* matcher / optionsMatches: the returned value
    mEvaluated,      \* matcher: the leaf calls made, in call order
    mpc,             \* matcher: "idle" | "call" | "returned"
    primary,        \* rule: primary option
    secondaryOptions, \* rule: secondary options
    context,        \* rule: [fix, newline]
    doc,            \* rule: the tree, nodes in document (pre-)order
    prevDoc,        \* rule: the tree before the latest check call
    prevReports,    \* rule: the reports before the latest check call
    reports,        \* rule: the records handed to report(), in call order
    visited,        \* rule: the statements check was called with, in call order
    last,           \* rule: what the latest check call computed
    pc,             \* rule: "idle" | "start" | "walk" | "aborted" | "done"
    phase,          \* rule: which of the two walks is running (1 or 2)
    walkPos         \* rule: the node the running walk visited last (0: none yet)

matcherVars == <<mInput, mComparison, mOptions, mPropertyName, mResult, mEvaluated, mpc>>
ruleVars == <<primary, secondaryOptions, context, doc, prevDoc, prevReports, reports,
              visited, last, pc, phase, walkPos>>
vars == <<mInput, mComparison, mOptions, mPropertyName, mResult, mEvaluated, mpc,
          primary, secondaryOptions, context, doc, prevDoc, prevReports, reports,
          visited, last, pc, phase, walkPos>>

---------------------------------------------------------------------------
(* Bounds *)
MaxStrLen == 3
MaxArrayLen == 2
MaxAfterLen == 3
MaxNodes == 3

---------------------------------------------------------------------------
(* JavaScript values *)
Undefined == [t |-> "undefined"]
Null == [t |-> "null"]
Bool(b) == [t |-> "boolean", b |-> b]
False == Bool(FALSE)
True == Bool(TRUE)
Num(n) == [t |-> "number", n |-> n]
Str(s) == [t |-> "string", s |-> s]
RegExpObj(src, ci) == [t |-> "regexp", source |-> src, ignoreCase |-> ci]
Arr(a) == [t |-> "array", items |-> a]
Obj(p) == [t |-> "object", props |-> p]
MatchObj(m, p, sub) == [t |-> "match", match |-> m, pattern |-> p, substring |-> sub]

\* ToBoolean
Truthy(v) ==
    CASE v.t = "undefined" -> FALSE
      [] v.t = "null" -> FALSE
      [] v.t = "boolean" -> v.b
      [] v.t = "number" -> v.n # 0
      [] v.t = "string" -> v.s # <<>>
      [] OTHER -> TRUE

\* a && b
And(a, b) == IF Truthy(a) THEN b ELSE a

\* Boolean(v)
Boolean(v) == Bool(Truthy(v))

\* o[name] on an options object
Get(o, name) == IF name \in DOMAIN o.props THEN o.props[name] ELSE Undefined

Min(a, b) == IF a < b THEN a ELSE b
Max(a, b) == IF a > b THEN a ELSE b

StringsUpTo(C, n) == UNION {[1..k -> C] : k \in 0..n}
SeqsUpTo(S, n) == UNION {[1..k -> S] : k \in 0..n}

\* s[k], k counted from 0; out of range is undefined
CharAt(s, k) == IF k >= 0 /\ k < Len(s) THEN s[k + 1] ELSE "undefined"

\* String.prototype.slice(start, end)
Slice(s, start, end) ==
    LET len == Len(s)
        from == IF start < 0 THEN Max(len + start, 0) ELSE Min(start, len)
        to == IF end < 0 THEN Max(len + end, 0) ELSE Min(end, len)
    IN IF from >= to THEN <<>> ELSE SubSeq(s, from + 1, to)

---------------------------------------------------------------------------
(* Regular expressions over Chars: every character is a literal but "^",   *)
(* the start-of-input assertion.                                           *)
Chars == {"/", "i", "a", "A", "^"}

Fold(c) == IF c = "A" THEN "a" ELSE c

SameChar(c, d, ci) == IF ci THEN Fold(c) = Fold(d) ELSE c = d

\* The end position of a match of src[k..] at position pos of value, or -1
RECURSIVE MatchHere(_, _, _, _, _)
MatchHere(src, k, value, pos, ci) ==
    IF k > Len(src) THEN pos
    ELSE IF src[k] = "^"
         THEN IF pos = 0 THEN MatchHere(src, k + 1, value, pos, ci) ELSE -1
         ELSE IF pos < Len(value) /\ SameChar(src[k], value[pos + 1], ci)
              THEN MatchHere(src, k + 1, value, pos + 1, ci)
              ELSE -1

\* new RegExp(src, ci ? "i" : "").exec(value): Null, or match[0]
RegExpExec(src, ci, value) ==
    LET starts == {p \in 0..Len(value) : MatchHere(src, 1, value, p, ci) # -1}
    IN IF starts = {} THEN Null
       ELSE LET p == CHOOSE q \in starts : \A r \in starts : q <= r
            IN Str(SubSeq(value, p + 1, MatchHere(src, 1, value, p, ci)))

---------------------------------------------------------------------------
(* lib/utils/option.js *)

\* The mutant: the convention looks at the first character only
testAgainstStringOrRegExpFirstCharOnly(value, comparison) ==
    IF comparison.t = "regexp"
    THEN LET match == RegExpExec(comparison.source, comparison.ignoreCase, value.s)
         IN IF match # Null THEN MatchObj(value, comparison, match) ELSE False
    ELSE LET c == comparison.s
         IN IF CharAt(c, 0) = "/"
            THEN LET valueMatch == RegExpExec(Slice(c, 1, -1), FALSE, value.s)
                 IN IF valueMatch # Null
                    THEN MatchObj(value, comparison, valueMatch)
                    ELSE False
            ELSE IF value = comparison
                 THEN MatchObj(value, comparison, value)
                 ELSE False

testAgainstStringOrRegExp(value, comparison) ==
    IF comparison.t = "regexp"
    THEN LET match == RegExpExec(comparison.source, comparison.ignoreCase, value.s)
         IN IF match # Null
            THEN MatchObj(value, comparison, IF Truthy(match) THEN match ELSE Str(<<>>))
            ELSE False
    ELSE LET c == comparison.s
             firstComparisonChar == CharAt(c, 0)
             lastComparisonChar == CharAt(c, Len(c) - 1)
             secondToLastComparisonChar == CharAt(c, Len(c) - 2)
             comparisonIsRegex ==
                 /\ firstComparisonChar = "/"
                 /\ \/ lastComparisonChar = "/"
                    \/ secondToLastComparisonChar = "/" /\ lastComparisonChar = "i"
             hasCaseInsensitiveFlag == comparisonIsRegex /\ lastComparisonChar = "i"
         IN IF comparisonIsRegex
            THEN LET valueMatch ==
                         IF hasCaseInsensitiveFlag
                         THEN RegExpExec(Slice(c, 1, -2), TRUE, value.s)
                         ELSE RegExpExec(Slice(c, 1, -1), FALSE, value.s)
                 IN IF valueMatch # Null
                    THEN MatchObj(value, comparison,
                                  IF Truthy(valueMatch) THEN valueMatch ELSE Str(<<>>))
                    ELSE False
            ELSE IF value = comparison
                 THEN MatchObj(value, comparison, value)
                 ELSE False

\* A call made by testAgainstStringOrRegExpOrArray: its result and the call
leafCall(value, comparison) ==
    [result |-> testAgainstStringOrRegExp(value, comparison),
     evaluated |-> <<<<value, comparison>>>>]

\* if (testResult) return testResult, else on with the loop
returnIfHit(test, rest) ==
    IF Truthy(test.result)
    THEN test
    ELSE [result |-> rest.result, evaluated |-> test.evaluated \o rest.evaluated]

\* The mutant's loop step: on with the loop after a hit; the last hit is returned
returnLastHit(test, rest) ==
    [result |-> IF Truthy(rest.result) THEN rest.result ELSE test.result,
     evaluated |-> test.evaluated \o rest.evaluated]

\* The for loop of testAgainstStringOrRegExpOrArray from element j on
RECURSIVE comparisonLoop(_, _, _)
comparisonLoop(value, items, j) ==
    IF j > Len(items) THEN [result |-> False, evaluated |-> <<>>]
    ELSE returnIfHit(leafCall(value, items[j]), comparisonLoop(value, items, j + 1))

RECURSIVE comparisonLoopLastHit(_, _, _)
comparisonLoopLastHit(value, items, j) ==
    IF j > Len(items) THEN [result |-> False, evaluated |-> <<>>]
    ELSE returnLastHit(leafCall(value, items[j]),
                       comparisonLoopLastHit(value, items, j + 1))

\* The mutant: the loop over the comparisons does not stop at the first hit
testAgainstStringOrRegExpOrArrayLastHit(value, cmp) ==
    IF cmp.t # "array"
    THEN leafCall(value, cmp)
    ELSE comparisonLoopLastHit(value, cmp.items, 1)

\* [result: what the function returns, evaluated: its leaf calls in order]
testAgainstStringOrRegExpOrArray(value, cmp) ==
    IF cmp.t # "array"
    THEN leafCall(value, cmp)
    ELSE comparisonLoop(value, cmp.items, 1)

\* The for loop of matchesStringOrRegExp from element i on
RECURSIVE inputLoop(_, _, _)
inputLoop(items, cmp, i) ==
    IF i > Len(items) THEN [result |-> False, evaluated |-> <<>>]
    ELSE returnIfHit(testAgainstStringOrRegExpOrArray(items[i], cmp),
                     inputLoop(items, cmp, i + 1))

matchesStringOrRegExp(in, cmp) ==
    IF in.t # "array"
    THEN testAgainstStringOrRegExpOrArray(in, cmp)
    ELSE inputLoop(in.items, cmp, 1)

\* The mutant: the && chain is returned as it is
optionsMatchesNoBoolean(opts, name, in) ==
    And(opts,
        IF Truthy(opts)
        THEN And(Get(opts, name),
                 And(Bool(in.t = "string"),
                     IF Truthy(Get(opts, name)) /\ in.t = "string"
                     THEN matchesStringOrRegExp(in, Get(opts, name)).result
                     ELSE False))
        ELSE False)

optionsMatches(opts, name, in) ==
    Boolean(
        And(opts,
            IF Truthy(opts)
            THEN And(Get(opts, name),
                     And(Bool(in.t = "string"),
                         IF Truthy(Get(opts, name)) /\ in.t = "string"
                         THEN matchesStringOrRegExp(in, Get(opts, name)).result
                         ELSE False))
            ELSE False))

---------------------------------------------------------------------------
(* The rule's variables while only the matcher runs, and the other way round *)
RuleIdle ==
    /\ primary = Undefined
    /\ secondaryOptions = Undefined
    /\ context = [fix |-> FALSE, newline |-> Undefined]
    /\ doc = <<>>
    /\ prevDoc = <<>>
    /\ prevReports = <<>>
    /\ reports = <<>>
    /\ visited = <<>>
    /\ last = [kind |-> "none"]
    /\ pc = "idle"
    /\ phase = 1
    /\ walkPos = 0

MatcherIdle ==
    /\ mInput = Undefined
    /\ mComparison = Undefined
    /\ mOptions = Undefined
    /\ mPropertyName = ""
    /\ mResult = Undefined
    /\ mEvaluated = <<>>
    /\ mpc = "idle"

---------------------------------------------------------------------------
(* testAgainstStringOrRegExp on every pair of strings over Chars *)
LeafStrings == {Str(s) : s \in StringsUpTo(Chars, MaxStrLen)}

LeafRegExps == {RegExpObj(<<"a">>, TRUE), RegExpObj(<<"^", "a">>, FALSE),
                RegExpObj(<<>>, FALSE)}

InitLeaf ==
    /\ mInput \in LeafStrings
    /\ mComparison \in LeafStrings \cup LeafRegExps
    /\ mOptions = Undefined
    /\ mPropertyName = ""
    /\ mResult = Undefined
    /\ mEvaluated = <<>>
    /\ mpc = "call"
    /\ RuleIdle

TestLeaf ==
    /\ mpc = "call"
    /\ mResult' = testAgainstStringOrRegExp(mInput, mComparison)
    /\ mEvaluated' = <<<<mInput, mComparison>>>>
    /\ mpc' = "returned"
    /\ UNCHANGED <<mInput, mComparison, mOptions, mPropertyName>>
    /\ UNCHANGED ruleVars

NextLeaf == TestLeaf

SpecLeaf == InitLeaf /\ [][NextLeaf]_vars

---------------------------------------------------------------------------
(* matchesStringOrRegExp on strings, patterns and arrays of them *)
MatchValues == {Str(<<>>), Str(<<"a">>), Str(<<"A">>), Str(<<"/", "/">>)}

MatchPatterns == {Str(<<>>), Str(<<"a">>), Str(<<"/", "/">>),
                  Str(<<"/", "a", "/", "i">>), RegExpObj(<<"A">>, FALSE)}

MatchInputs == MatchValues \cup {Arr(a) : a \in SeqsUpTo(MatchValues, MaxArrayLen)}

MatchComparisons ==
    MatchPatterns \cup {Arr(a) : a \in SeqsUpTo(MatchPatterns, MaxArrayLen)}

InitMatch ==
    /\ mInput \in MatchInputs
    /\ mComparison \in MatchComparisons
    /\ mOptions = Undefined
    /\ mPropertyName = ""
    /\ mResult = Undefined
    /\ mEvaluated = <<>>
    /\ mpc = "call"
    /\ RuleIdle

Match ==
    /\ mpc = "call"
    /\ \E r \in {matchesStringOrRegExp(mInput, mComparison)} :
           /\ mResult' = r.result
           /\ mEvaluated' = r.evaluated
    /\ mpc' = "returned"
    /\ UNCHANGED <<mInput, mComparison, mOptions, mPropertyName>>
    /\ UNCHANGED ruleVars

NextMatch == Match

SpecMatch == InitMatch /\ [][NextMatch]_vars

---------------------------------------------------------------------------
(* optionsMatches *)
PropertyValues ==
    {Undefined, Null, False, Num(0), Str(<<>>), Str(<<"a">>), Str(<<"/", "/">>),
     RegExpObj(<<"A">>, FALSE), Arr(<<>>), Arr(<<Str(<<"A">>), Str(<<"a">>)>>)}

OptionsValues ==
    {Undefined, Null, Obj(<<>>)}
        \cup {Obj([except |-> v]) : v \in PropertyValues}
        \cup {Obj([except |-> v, ignore |-> w]) : v, w \in PropertyValues}

OptionsInputs ==
    {Str(<<>>), Str(<<"a">>), Str(<<"A">>), Undefined, Null, Num(0), True,
     Arr(<<Str(<<"a">>)>>)}

InitOptions ==
    /\ mInput \in OptionsInputs
    /\ mComparison = Undefined
    /\ mOptions \in OptionsValues
    /\ mPropertyName \in {"except", "ignore"}
    /\ mResult = Undefined
    /\ mEvaluated = <<>>
    /\ mpc = "call"
    /\ RuleIdle

OptionsMatch ==
    /\ mpc = "call"
    /\ mResult' = optionsMatches(mOptions, mPropertyName, mInput)
    /\ mpc' = "returned"
    /\ UNCHANGED <<mInput, mComparison, mOptions, mPropertyName, mEvaluated>>
    /\ UNCHANGED ruleVars

NextOptions == OptionsMatch

SpecOptions == InitOptions /\ [][NextOptions]_vars

---------------------------------------------------------------------------
(* Claims about the matcher *)

\* The elements of a string-or-array argument, in order
Elements(v) == IF v.t = "array" THEN v.items ELSE <<v>>

\* The (input element, pattern) pairs that match at the leaf level
Hits(in, cmp) ==
    {p \in (1..Len(Elements(in))) \X (1..Len(Elements(cmp))) :
        testAgainstStringOrRegExp(Elements(in)[p[1]], Elements(cmp)[p[2]]) # False}

\* p is not after q in input-major, comparison-minor order
NotAfter(p, q) == p[1] < q[1] \/ (p[1] = q[1] /\ p[2] <= q[2])

FirstHit(in, cmp) == CHOOSE p \in Hits(in, cmp) : \A q \in Hits(in, cmp) : NotAfter(p, q)

\* The first n pairs in input-major, comparison-minor order
FirstPairs(in, cmp, n) ==
    [k \in 1..n |-> <<Elements(in)[((k - 1) \div Len(Elements(cmp))) + 1],
                      Elements(cmp)[((k - 1) % Len(Elements(cmp))) + 1]>>]

\* C5: matchesStringOrRegExp returns no-match iff no (input element, pattern)
\* pair matches at the leaf level; otherwise it returns the leaf result of the
\* first matching pair in input-major, comparison-minor order, and the leaf
\* calls it made are exactly the pairs up to that one: no later pair is
\* evaluated.
C5_FirstMatchingPair ==
    mpc = "returned" =>
        IF Hits(mInput, mComparison) = {}
        THEN /\ mResult = False
             /\ mEvaluated = FirstPairs(mInput, mComparison,
                    Len(Elements(mInput)) * Len(Elements(mComparison)))
        ELSE LET p == FirstHit(mInput, mComparison)
             IN /\ mResult = testAgainstStringOrRegExp(Elements(mInput)[p[1]],
                                                       Elements(mComparison)[p[2]])
                /\ mResult # False
                /\ mResult.pattern = Elements(mComparison)[p[2]]
                /\ mEvaluated = FirstPairs(mInput, mComparison,
                       (p[1] - 1) * Len(Elements(mComparison)) + p[2])

\* C5 witness: both arguments are arrays, the first pair misses, the second
\* hits and a later pair would hit too
C5_Witness ==
    /\ mpc = "returned"
    /\ mInput.t = "array"
    /\ mComparison.t = "array"
    /\ Cardinality(Hits(mInput, mComparison)) >= 2
    /\ FirstHit(mInput, mComparison) = <<1, 2>>
    /\ Len(mEvaluated) = 2
    /\ mResult # False

\* C6: a string comparison shorter than 2 characters is compared literally:
\* it matches a value iff the value is exactly that string.
C6_ShortComparisonIsLiteral ==
    (mpc = "returned" /\ mComparison.t = "string" /\ Len(mComparison.s) < 2) =>
        ((mResult # False) <=> (mInput = mComparison))

\* The embedded-regex convention, as the spec words it
RegexForm(c) ==
    /\ Len(c) >= 1
    /\ c[1] = "/"
    /\ \/ c[Len(c)] = "/"
       \/ Len(c) >= 2 /\ c[Len(c) - 1] = "/" /\ c[Len(c)] = "i"

\* C7 as stated: for all strings s and t, matches(s, s) succeeds with
\* substring = s and matches(s, t) fails for t # s, strings that begin and end
\* with "/" included.
C7_LiteralForAllStrings ==
    (mpc = "returned" /\ mComparison.t = "string") =>
        IF mInput = mComparison
        THEN mResult # False /\ mResult.substring = mInput
        ELSE mResult = False

\* C7 amended: for every string t that is not of the embedded-regex form (it
\* does not both begin with "/" and end with "/" or "/i"), matches(s, t)
\* succeeds iff s = t, and then with match = substring = s and pattern = t.
C7_LiteralOutsideRegexForm ==
    (mpc = "returned" /\ mComparison.t = "string" /\ ~RegexForm(mComparison.s)) =>
        IF mInput = mComparison
        THEN mResult = MatchObj(mInput, mComparison, mInput)
        ELSE mResult = False

\* C7 witness: a literal that begins with "/" matched against itself
C7_Witness ==
    /\ mpc = "returned"
    /\ mComparison.t = "string"
    /\ Len(mComparison.s) >= 2
    /\ mComparison.s[1] = "/"
    /\ ~RegexForm(mComparison.s)
    /\ mInput = mComparison
    /\ mResult # False

\* C8: optionsMatches returns the boolean true iff options is present,
\* options[propertyName] is truthy, input is a string and the match of input
\* against options[propertyName] is not no-match; otherwise the boolean false.
C8_OptionsMatchesBoolean ==
    mpc = "returned" =>
        mResult = Bool(/\ mOptions.t \notin {"undefined", "null"}
                       /\ Truthy(Get(mOptions, mPropertyName))
                       /\ mInput.t = "string"
                       /\ matchesStringOrRegExp(
                              mInput, Get(mOptions, mPropertyName)).result # False)

\* C8 witness: the input is not a string, options[propertyName] is truthy and
\* the matcher would find a match
C8_Witness ==
    /\ mpc = "returned"
    /\ mOptions.t = "object"
    /\ Truthy(Get(mOptions, mPropertyName))
    /\ mInput.t = "array"
    /\ matchesStringOrRegExp(mInput, Get(mOptions, mPropertyName)).result # False
    /\ mResult = False

---------------------------------------------------------------------------
(* The tree.  doc is the sequence of the root's descendants in document     *)
(* order (depth first, a node before its children); parent = 0 is the root. *)
(* A node: [type, parent, block, rawsBefore, rawsAfter]; block says whether *)
(* the node has a nodes array.                                              *)

WsChars == {" ", "\n", "\r", ";"}

IsStatement(n) == n.type \in {"rule", "atrule"}

\* statement.nodes, as the set of the children's positions in doc
Nodes(d, i) == {j \in 1..Len(d) : d[j].parent = i}

\* Stringifier: a container's children from position j on, then the node itself
RECURSIVE Body(_, _, _)
RECURSIVE toString(_, _)
Body(d, i, j) ==
    IF j > Len(d) THEN <<>>
    ELSE IF d[j].parent = i
         THEN d[j].rawsBefore \o toString(d, j)
                  \o (IF d[j].type = "decl" \/ (d[j].type = "atrule" /\ ~d[j].block)
                      THEN <<";">> ELSE <<>>)
                  \o Body(d, i, j + 1)
         ELSE Body(d, i, j + 1)

toString(d, i) ==
    CASE d[i].type = "decl" -> <<"d">>
      [] d[i].type = "comment" -> <<"c">>
      [] OTHER ->
            (IF d[i].type = "rule" THEN <<"a">> ELSE <<"@">>)
                \o (IF d[i].block
                    THEN <<"{">> \o Body(d, i, i + 1) \o d[i].rawsAfter \o <<"}">>
                    ELSE <<>>)

---------------------------------------------------------------------------
(* lib/utils/stylelint-v15/ast, text and fix: the helpers the rule imports *)

hasBlock(d, i) == d[i].block

hasEmptyBlock(d, i) == hasBlock(d, i) /\ Nodes(d, i) = {}

\* The statement's text from its opening brace on
blockString(d, i) ==
    IF ~hasBlock(d, i) THEN <<>>
    ELSE <<"{">> \o Body(d, i, i + 1) \o d[i].rawsAfter \o <<"}">>

isSingleLineString(str) == ~\E k \in 1..Len(str) : str[k] \in {"\n", "\r"}

\* /\n[\r\t ]*\n/.test(str)
hasEmptyLine(str) ==
    \E p, q \in 1..Len(str) :
        /\ p < q
        /\ str[p] = "\n"
        /\ str[q] = "\n"
        /\ \A k \in (p + 1)..(q - 1) : str[k] \in {"\r", "\t", " "}

IsSpace(c) == c \in {" ", "\n", "\r", "\t"}

\* The text after the last ";" of str
RECURSIVE LastSegment(_)
LastSegment(str) ==
    IF \E k \in 1..Len(str) : str[k] = ";"
    THEN LastSegment(Tail(str))
    ELSE str

\* Adds a line break before the first one of the text after the last ";",
\* or two line breaks at the end when that text has none
addEmptyLineAfter(after, newline) ==
    IF ~\E k \in 1..Len(LastSegment(after)) : LastSegment(after)[k] = "\n"
    THEN after \o newline \o newline
    ELSE LET nl == CHOOSE k \in 1..Len(after) :
                       after[k] = "\n" /\ \A m \in 1..(k - 1) : after[m] # "\n"
             at == IF nl > 1 /\ after[nl - 1] = "\r" THEN nl - 1 ELSE nl
         IN SubSeq(after, 1, at - 1) \o newline \o SubSeq(after, at, Len(after))

\* Replaces every run of white space that begins with a line break and holds
\* another one, up to its last line break, by newline
RECURSIVE RemoveFrom(_, _, _)
RemoveFrom(str, p, newline) ==
    IF p > Len(str) THEN <<>>
    ELSE LET nl == IF str[p] = "\n" THEN p
                   ELSE IF str[p] = "\r" /\ p < Len(str) /\ str[p + 1] = "\n"
                        THEN p + 1
                        ELSE 0
             breaks == {q \in (nl + 1)..Len(str) :
                           /\ str[q] = "\n"
                           /\ \A k \in (nl + 1)..q : IsSpace(str[k])}
         IN IF nl # 0 /\ breaks # {}
            THEN LET lastBreak == CHOOSE q \in breaks : \A r \in breaks : r <= q
                 IN newline \o RemoveFrom(str, lastBreak + 1, newline)
            ELSE <<str[p]>> \o RemoveFrom(str, p + 1, newline)

removeEmptyLinesAfter(after, newline) == RemoveFrom(after, 1, newline)

---------------------------------------------------------------------------
(* lib/utils/stylelint-v15/rules/block-closing-brace-empty-line-before.js *)

AfterClosingBrace ==
    <<"a", "f", "t", "e", "r", "-", "c", "l", "o", "s", "i", "n", "g", "-",
      "b", "r", "a", "c", "e">>

\* validateOptions with the rule's two schemas
validOptions ==
    /\ primary \in {"always-multi-line", "never"}
    /\ \/ secondaryOptions = Undefined
       \/ /\ secondaryOptions.t = "object"
          /\ DOMAIN secondaryOptions.props \subseteq {"except"}
          /\ LET except == Get(secondaryOptions, "except")
             IN \/ except = Undefined
                \/ \A k \in 1..Len(Elements(except)) :
                       Elements(except)[k] = Str(AfterClosingBrace)

\* The mutant: the two walks the other way round
walkOrderAtRulesFirst == <<"atrule", "rule">>

\* root.walkRules(check), then root.walkAtRules(check)
walkOrder == <<"rule", "atrule">>

\* The next node of the given type after pos in document order, 0 if none
NextOfType(d, type, p) ==
    IF \E j \in (p + 1)..Len(d) : d[j].type = type
    THEN CHOOSE j \in (p + 1)..Len(d) :
             d[j].type = type /\ \A k \in (p + 1)..(j - 1) : d[k].type # type
    ELSE 0

\* (statement.raws.after || "").replace(/;+/, ""): drops the first run of ";"
RECURSIVE DropRun(_)
DropRun(str) == IF str # <<>> /\ Head(str) = ";" THEN DropRun(Tail(str)) ELSE str

RECURSIVE before(_)
before(after) ==
    IF after = <<>> THEN <<>>
    ELSE IF Head(after) = ";" THEN DropRun(after)
         ELSE <<Head(after)>> \o before(Tail(after))

\* The index handed to report()
closingBraceIndex(statementString) ==
    LET index == Len(statementString) - 1
    IN IF CharAt(statementString, index - 1) = "\r" THEN index - 1 ELSE index

\* The mutant: the override applies to rules as well
expectEmptyLineBeforeAnyType(d, i) ==
    IF /\ Truthy(optionsMatches(secondaryOptions, "except", Str(AfterClosingBrace)))
       /\ ~\E j \in Nodes(d, i) : d[j].type = "decl"
    THEN primary = "never"
    ELSE primary = "always-multi-line" /\ ~isSingleLineString(blockString(d, i))

expectEmptyLineBefore(d, i) ==
    IF /\ Truthy(optionsMatches(secondaryOptions, "except", Str(AfterClosingBrace)))
       /\ d[i].type = "atrule"
       /\ ~\E j \in Nodes(d, i) : d[j].type = "decl"
    THEN primary = "never"
    ELSE primary = "always-multi-line" /\ ~isSingleLineString(blockString(d, i))

\* The mutant: the two primitives swapped
fixSwapped(after, expected, newline) ==
    IF expected
    THEN removeEmptyLinesAfter(after, newline)
    ELSE addEmptyLineAfter(after, newline)

\* The fix branch once newline is known to be a string: the new raws.after
fix(after, expected, newline) ==
    IF expected
    THEN addEmptyLineAfter(after, newline)
    ELSE removeEmptyLinesAfter(after, newline)

message(expected) == IF expected THEN "expected" ELSE "rejected"

\* check from its comparison of the expectation with the trailing white space on
outcome(d, reps, i, expected, actual, index) ==
    IF expected = actual
    THEN [doc |-> d, reports |-> reps,
          last |-> [node |-> i, expected |-> expected, actual |-> actual,
                    kind |-> "met"]]
    ELSE IF context.fix
         THEN IF context.newline.t # "string"
              THEN [doc |-> d, reports |-> reps,
                    last |-> [node |-> i, expected |-> expected, actual |-> actual,
                              kind |-> "fixSkipped"]]
              ELSE [doc |-> [d EXCEPT ![i].rawsAfter =
                                fix(@, expected, context.newline.s)],
                    reports |-> reps,
                    last |-> [node |-> i, expected |-> expected, actual |-> actual,
                              kind |-> "fixed"]]
         ELSE [doc |-> d,
               reports |-> Append(reps, [message |-> message(expected),
                                         node |-> i, index |-> index]),
               last |-> [node |-> i, expected |-> expected, actual |-> actual,
                         kind |-> "reported"]]

\* check past its early return
checkBlock(d, reps, i) ==
    outcome(d, reps, i,
            expectEmptyLineBefore(d, i),
            hasEmptyLine(before(d[i].rawsAfter)),
            closingBraceIndex(toString(d, i)))

\* The mutant: no early return
checkNoEarlyReturn(d, reps, i) == checkBlock(d, reps, i)

\* check(statement): the tree and the reports after the call, and what it computed
check(d, reps, i) ==
    IF ~hasBlock(d, i) \/ hasEmptyBlock(d, i)
    THEN [doc |-> d, reports |-> reps, last |-> [node |-> i, kind |-> "returnedEarly"]]
    ELSE checkBlock(d, reps, i)

---------------------------------------------------------------------------
(* One run of the rule: rule(primary, secondaryOptions, context)(root, result) *)

\* validateOptions rejects the options: the rule returns
Abort ==
    /\ pc = "start"
    /\ ~validOptions
    /\ pc' = "aborted"
    /\ UNCHANGED <<primary, secondaryOptions, context, doc, prevDoc, prevReports,
                   reports, visited, last, phase, walkPos>>
    /\ UNCHANGED matcherVars

\* The options are valid: the first walk begins
StartWalk ==
    /\ pc = "start"
    /\ validOptions
    /\ pc' = "walk"
    /\ phase' = 1
    /\ walkPos' = 0
    /\ UNCHANGED <<primary, secondaryOptions, context, doc, prevDoc, prevReports,
                   reports, visited, last>>
    /\ UNCHANGED matcherVars

\* The running walk calls check with its next statement
Visit ==
    /\ pc = "walk"
    /\ NextOfType(doc, walkOrder[phase], walkPos) # 0
    /\ \E r \in {check(doc, reports, NextOfType(doc, walkOrder[phase], walkPos))} :
           /\ doc' = r.doc
           /\ reports' = r.reports
           /\ last' = r.last
           /\ visited' = Append(visited, r.last.node)
           /\ walkPos' = r.last.node
    /\ prevDoc' = doc
    /\ prevReports' = reports
    /\ UNCHANGED <<primary, secondaryOptions, context, pc, phase>>
    /\ UNCHANGED matcherVars

\* The first walk is over: the second begins
NextWalk ==
    /\ pc = "walk"
    /\ phase = 1
    /\ NextOfType(doc, walkOrder[phase], walkPos) = 0
    /\ phase' = 2
    /\ walkPos' = 0
    /\ UNCHANGED <<primary, secondaryOptions, context, doc, prevDoc, prevReports,
                   reports, visited, last, pc>>
    /\ UNCHANGED matcherVars

\* The second walk is over: the rule returns
Finish ==
    /\ pc = "walk"
    /\ phase = 2
    /\ NextOfType(doc, walkOrder[phase], walkPos) = 0
    /\ pc' = "done"
    /\ UNCHANGED <<primary, secondaryOptions, context, doc, prevDoc, prevReports,
                   reports, visited, last, phase, walkPos>>
    /\ UNCHANGED matcherVars

Next == Abort \/ StartWalk \/ Visit \/ NextWalk \/ Finish

Node(type, parent, block, rawsBefore, rawsAfter) ==
    [type |-> type, parent |-> parent, block |-> block,
     rawsBefore |-> rawsBefore, rawsAfter |-> rawsAfter]

PrimaryValues == {"always-multi-line", "never", "always"}

SecondaryValues ==
    {Undefined, Obj(<<>>), Obj([except |-> Arr(<<>>)]),
     Obj([except |-> Arr(<<Str(AfterClosingBrace)>>)]),
     Obj([except |-> Str(AfterClosingBrace)]),
     Obj([except |-> Arr(<<Str(<<"a">>)>>)])}

ContextValues ==
    {[fix |-> FALSE, newline |-> Undefined],
     [fix |-> FALSE, newline |-> Str(<<"\n">>)],
     [fix |-> TRUE, newline |-> Undefined],
     [fix |-> TRUE, newline |-> Str(<<"\n">>)],
     [fix |-> TRUE, newline |-> Str(<<"\r", "\n">>)]}

InitRun ==
    /\ prevDoc = doc
    /\ prevReports = <<>>
    /\ reports = <<>>
    /\ visited = <<>>
    /\ last = [kind |-> "none"]
    /\ pc = "start"
    /\ phase = 1
    /\ walkPos = 0
    /\ MatcherIdle

---------------------------------------------------------------------------
(* Trees of up to MaxNodes nodes *)
TreeNodes ==
    {Node(type, parent, TRUE, <<>>, after) :
        type \in {"rule", "atrule"}, parent \in 0..(MaxNodes - 1),
        after \in {<<"\n">>, <<"\n", "\n">>}}
    \cup {Node("decl", parent, FALSE, <<>>, <<>>) : parent \in 0..(MaxNodes - 1)}

\* a is j or one of its ancestors
RECURSIVE OnPath(_, _, _)
OnPath(d, a, j) == a = j \/ (j > 0 /\ OnPath(d, a, d[j].parent))

\* d lists a tree in document order
WellFormed(d) ==
    \A j \in 1..Len(d) :
        /\ d[j].parent < j
        /\ d[j].parent # 0 => d[d[j].parent].block /\ OnPath(d, d[j].parent, j - 1)

TreeDocs == {d \in SeqsUpTo(TreeNodes, MaxNodes) : WellFormed(d)}

Init ==
    /\ primary \in PrimaryValues
    /\ secondaryOptions \in {Undefined, Obj([except |-> Arr(<<Str(AfterClosingBrace)>>)])}
    /\ context \in {[fix |-> FALSE, newline |-> Str(<<"\n">>)],
                    [fix |-> TRUE, newline |-> Str(<<"\n">>)]}
    /\ doc \in TreeDocs
    /\ InitRun

Spec == Init /\ [][Next]_vars

---------------------------------------------------------------------------
(* One statement with every trailing white space of up to MaxAfterLen        *)
(* characters                                                                *)
ChildLists ==
    {<<>>,
     <<Node("decl", 1, FALSE, <<" ">>, <<>>)>>,
     <<Node("decl", 1, FALSE, <<"\n">>, <<>>)>>,
     <<Node("comment", 1, FALSE, <<" ">>, <<>>)>>,
     <<Node("rule", 1, TRUE, <<" ">>, <<>>)>>,
     <<Node("comment", 1, FALSE, <<" ">>, <<>>), Node("decl", 1, FALSE, <<" ">>, <<>>)>>}

StatementDocs ==
    {<<Node(type, 0, TRUE, <<>>, after)>> \o children :
        type \in {"rule", "atrule"}, after \in StringsUpTo(WsChars, MaxAfterLen),
        children \in ChildLists}
    \cup {<<Node("atrule", 0, FALSE, <<>>, <<>>)>>}

InitCheck ==
    /\ primary \in PrimaryValues
    /\ secondaryOptions \in SecondaryValues
    /\ context \in ContextValues
    /\ doc \in StatementDocs
    /\ InitRun

SpecCheck == InitCheck /\ [][Next]_vars

---------------------------------------------------------------------------
(* Claims about the rule *)

\* The statement of the latest check call
LastNode == visited[Len(visited)]

\* check got past its early return in its latest call
Checked == visited # <<>> /\ last.kind \notin {"none", "returnedEarly"}

\* The except option contains "after-closing-brace"
ExceptContains ==
    /\ secondaryOptions.t = "object"
    /\ LET except == Get(secondaryOptions, "except")
       IN \/ except = Str(AfterClosingBrace)
          \/ /\ except.t = "array"
             /\ \E k \in 1..Len(except.items) : except.items[k] = Str(AfterClosingBrace)

HasDeclChild(d, i) == \E j \in 1..Len(d) : d[j].parent = i /\ d[j].type = "decl"

\* C1: for a statement with a non-empty block, the expectation check computes
\* is (primary = "never") when except contains "after-closing-brace", the
\* statement is an at-rule and none of its children is a declaration, and
\* (primary = "always-multi-line" and the block string spans several lines)
\* otherwise.
C1_Expectation ==
    Checked =>
        last.expected =
            IF /\ ExceptContains
               /\ prevDoc[LastNode].type = "atrule"
               /\ ~HasDeclChild(prevDoc, LastNode)
            THEN primary = "never"
            ELSE /\ primary = "always-multi-line"
                 /\ \E k \in 1..Len(blockString(prevDoc, LastNode)) :
                        blockString(prevDoc, LastNode)[k] \in {"\n", "\r"}

\* C1 witness: the override inverts the expectation of an at-rule without
\* declarations
C1_Witness ==
    /\ Checked
    /\ ExceptContains
    /\ prevDoc[LastNode].type = "atrule"
    /\ ~HasDeclChild(prevDoc, LastNode)
    /\ primary = "never"
    /\ last.expected

\* C2: the outcome of check on a statement with a non-empty block follows the
\* table of (expected, actual): equal, nothing is reported or modified;
\* different without fix, exactly one report for the statement, with the
\* message the expectation selects, and no modification; different with fix, no
\* report, and raws.after rewritten by the insert primitive (expected) or the
\* remove primitive (not expected) when newline is a string, left alone when it
\* is not.
C2_OutcomeTable ==
    Checked =>
        IF last.expected = last.actual
        THEN doc = prevDoc /\ reports = prevReports
        ELSE IF ~context.fix
             THEN /\ doc = prevDoc
                  /\ Len(reports) = Len(prevReports) + 1
                  /\ SubSeq(reports, 1, Len(prevReports)) = prevReports
                  /\ reports[Len(reports)].node = LastNode
                  /\ reports[Len(reports)].message =
                         IF last.expected THEN "expected" ELSE "rejected"
             ELSE /\ reports = prevReports
                  /\ IF context.newline.t = "string"
                     THEN doc = [prevDoc EXCEPT ![LastNode].rawsAfter =
                                    IF last.expected
                                    THEN addEmptyLineAfter(@, context.newline.s)
                                    ELSE removeEmptyLinesAfter(@, context.newline.s)]
                     ELSE doc = prevDoc

\* C2 witness: a fix rewrote the trailing white space
C2_Witness ==
    /\ Checked
    /\ last.expected # last.actual
    /\ context.fix
    /\ context.newline.t = "string"
    /\ doc # prevDoc
    /\ reports = prevReports

C4_NoBlockNoEffect ==
    (visited # <<>> /\ (~prevDoc[LastNode].block \/ Nodes(prevDoc, LastNode) = {})) =>
        doc = prevDoc /\ reports = prevReports

\* C4 witness: an empty block with a blank line before its closing brace, under
\* "never" and without fix
C4_Witness ==
    /\ visited # <<>>
    /\ prevDoc[LastNode].block
    /\ Nodes(prevDoc, LastNode) = {}
    /\ hasEmptyLine(prevDoc[LastNode].rawsAfter)
    /\ primary = "never"
    /\ ~context.fix

\* C9: the character at every reported index is the statement's closing brace.
C9_IndexIsClosingBrace ==
    \A k \in 1..Len(reports) :
        CharAt(toString(doc, reports[k].node), reports[k].index) = "}"

Statements(d) == {j \in 1..Len(d) : IsStatement(d[j])}

VisitedOnce ==
    /\ Len(visited) = Cardinality(Statements(doc))
    /\ \A j \in Statements(doc) : \E k \in 1..Len(visited) : visited[k] = j

\* C10 as stated: a run calls check exactly once with every rule and at-rule,
\* in document order, and of two reports the one of the statement that comes
\* first in the document is made first.
C10_DocumentOrder ==
    pc = "done" =>
        /\ VisitedOnce
        /\ \A k, l \in 1..Len(visited) : k < l => visited[k] < visited[l]
        /\ \A k, l \in 1..Len(reports) : k < l => reports[k].node < reports[l].node

\* Statement a is checked before statement b
Precedes(d, a, b) ==
    \/ d[a].type = "rule" /\ d[b].type = "atrule"
    \/ d[a].type = d[b].type /\ a < b

\* C10 amended: a run calls check exactly once with every rule and at-rule: with
\* every rule in document order first, then with every at-rule in document
\* order; the reports are made in that order: of two reports of the same kind
\* of statement the one of the earlier statement is made first, and every
\* report of a rule is made before every report of an at-rule.
C10_RulesThenAtRules ==
    pc = "done" =>
        /\ VisitedOnce
        /\ \A k, l \in 1..Len(visited) :
               k < l => Precedes(doc, visited[k], visited[l])
        /\ \A k, l \in 1..Len(reports) :
               k < l => Precedes(doc, reports[k].node, reports[l].node)

\* C10 witness: a rule is reported before an at-rule that comes first in the
\* document
C10_Witness ==
    /\ pc = "done"
    /\ \E k, l \in 1..Len(reports) :
           /\ k < l
           /\ reports[k].node > reports[l].node
           /\ doc[reports[k].node].type = "rule"
           /\ doc[reports[l].node].type = "atrule"

=============================================================================
